---- MODULE Spec2Model ----
(***************************************************************************)
(* Model of the OpenDevin agent control step (LangchainsAgent, Agent) and  *)
(* of the websocket Session that drives it.                                *)
(*                                                                         *)
(* Text is a sequence of tokens; a token is a record [s, n] holding a      *)
(* chunk of characters s and its length n in characters.  The sentinels    *)
(* "RUN ", "RECALL ", "BROWSE " and the placeholder "$TASK" are tokens of  *)
(* their own, so that startswith/split/replace act on token boundaries.    *)
(***************************************************************************)
EXTENDS Integers, Sequences, FiniteSets, TLC

VARIABLES
    \* ---- LangchainsAgent / Agent ----
    instruction,      \* Agent.instruction
    complete,         \* Agent._complete
    initialized,      \* LangchainsAgent._initialized
    monologue,        \* Monologue.thoughts, the event log
    memory,           \* LongTermMemory, the events indexed so far
    latest_action,    \* LangchainsAgent.latest_action
    updated_info,     \* State.updated_info, the pending batch
    backend_calls,    \* number of llm.request_action calls made
    raised,           \* exception raised by the last operation ("" if none)
    returned,         \* action returned by the last step (NoAction if none)
    finish_produced,  \* a step returned a Finish action since the last reset
    reset_pending,    \* reset() was called and no step has run since
    steps,            \* number of step invocations
    pairs_added,      \* number of pairs ever put in state.updated_info
    add_stats,        \* what the _add_event calls made so far have done
    \* ---- Session ----
    websocket,        \* Session.websocket ("ws" or "None")
    controller,       \* Session.controller ("None" or the AgentController)
    agent,            \* Session.agent ("None" or the materialized Agent)
    agent_task,       \* Session.agent_task (0 = None, else a run loop id)
    loops,            \* status of every run loop task created so far
    create_pc,        \* the "create controller" task started by __init__
    listen_pc,        \* position of start_listening
    ready,            \* event-loop queue of "send event in callback" tasks
    wire,             \* data passed to websocket.send_json, in call order
    emitted,          \* number of events the run loops have emitted
    skipped,          \* sends that returned early because websocket is None
    nrecv,            \* number of receive_json calls that have returned
    last_msg,         \* outcome of the last receive_json call
    last_reply,       \* data sent by the handler of the last message
    \* ---- Agent registry ----
    registry,         \* Agent._registry: name -> agent class
    first_bound,      \* the class of the first successful register of each name
    reg_last,         \* the last registry call and its outcome
    \* ---- encoding and decoding of actions ----
    rt_action,        \* the action put through the round trip
    rt_event,         \* the event dict it is encoded as
    rt_result,        \* what decoding that event dict gives
    rt_pc             \* position in the round trip

agentVars == <<instruction, complete, initialized, monologue, memory,
               latest_action, updated_info, backend_calls, raised,
               returned, finish_produced, reset_pending, steps, pairs_added,
               add_stats>>

sessionVars == <<websocket, controller, agent, agent_task, loops, create_pc,
                 listen_pc, ready, wire, emitted, skipped, nrecv, last_msg,
                 last_reply>>

registryVars == <<registry, first_bound, reg_last>>

roundTripVars == <<rt_action, rt_event, rt_result, rt_pc>>

vars == <<agentVars, sessionVars, registryVars, roundTripVars>>

----------------------------------------------------------------------------
(* Bounds of the model *)

MaxSteps == 2
MaxBatch == 1
MaxMsgs == 3
MaxEvents == 3
MaxLoops == 2

----------------------------------------------------------------------------
(* Text *)

L(s, n) == [s |-> s, n |-> n]

TASK == L("$TASK", 5)

EmptyText == << >>

RECURSIVE TextLen(_)
TextLen(t) == IF t = << >> THEN 0 ELSE Head(t).n + TextLen(Tail(t))

\* str.replace(old, new): every occurrence of the token old becomes new
RECURSIVE Replace(_, _, _)
Replace(t, old, new) ==
    IF t = << >> THEN << >>
    ELSE (IF Head(t) = old THEN new ELSE <<Head(t)>>) \o Replace(Tail(t), old, new)

RUN == L("RUN ", 4)
RECALL == L("RECALL ", 7)
BROWSE == L("BROWSE ", 7)

\* str.startswith("RUN" | "RECALL" | "BROWSE"): no text of the model starts
\* with the bare word, so the test is on the sentinel token
StartsWith(t, sentinel) == t # << >> /\ Head(t) = sentinel

\* the tokens of t before the first occurrence of sep
RECURSIVE UpTo(_, _)
UpTo(t, sep) ==
    IF t = << >> \/ Head(t) = sep THEN << >>
    ELSE <<Head(t)>> \o UpTo(Tail(t), sep)

\* the tokens of t after the first occurrence of sep
RECURSIVE After(_, _)
After(t, sep) ==
    IF t = << >> THEN << >>
    ELSE IF Head(t) = sep THEN Tail(t) ELSE After(Tail(t), sep)

\* str.split(sep)[1]: what lies between the first and the second sep
SplitSecond(t, sep) == UpTo(After(t, sep), sep)

\* text[:k] on a text whose cut falls within a run of filler characters
RECURSIVE Prefix(_, _)
Prefix(t, k) ==
    IF t = << >> \/ k <= 0 THEN << >>
    ELSE IF Head(t).n <= k THEN <<Head(t)>> \o Prefix(Tail(t), k - Head(t).n)
    ELSE <<L(Head(t).s, k)>>

----------------------------------------------------------------------------
(* The canned bootstrap script *)

INITIAL_THOUGHTS == <<
    <<L("I exist!", 8)>>,
    <<L("Hmm...looks like I can type in a command line prompt", 52)>>,
    <<L("Looks like I have a web browser too!", 36)>>,
    <<L("Here's what I want to do: ", 26), TASK>>,
    <<L("How am I going to get there though?", 35)>>,
    <<L("It seems like I have some kind of short term memory.", 52)>>,
    <<L("Each of my thoughts seems to be stored in a numbered list.", 58)>>,
    <<L("It seems whatever I say next will be added to the list.", 55)>>,
    <<L("But no one has perfect short-term memory. My list of thoughts will be summarized and condensed over time, losing information in the process.", 140)>>,
    <<L("Fortunately I have long term memory!", 36)>>,
    <<L("I can just say RECALL, followed by the thing I want to remember. And then related thoughts just spill out!", 106)>>,
    <<L("Sometimes they're random thoughts that don't really have to do with what I wanted to remember. But usually they're exactly what I need!", 135)>>,
    <<L("Let's try it out!", 17)>>,
    <<L("RECALL ", 7), L("what it is I want to do", 23)>>,
    <<L("Here's what I want to do: ", 26), TASK>>,
    <<L("How am I going to get there though?", 35)>>,
    <<L("Neat! And it looks like it's easy for me to use the command line too! I just have to say RUN followed by the command I want to run. The command output just jumps into my head!", 175)>>,
    <<L("RUN ", 4), L("echo \"hello world\"", 18)>>,
    <<L("hello world", 11)>>,
    <<L("Cool! I bet I can read and edit files too.", 42)>>,
    <<L("RUN ", 4), L("echo \"console.log('hello world')\" > test.js", 43)>>,
    <<>>,
    <<L("I just created test.js. I'll try and run it now.", 48)>>,
    <<L("RUN ", 4), L("node test.js", 12)>>,
    <<L("hello world", 11)>>,
    <<L("it works!", 9)>>,
    <<L("And if I want to use the browser, I just need to say BROWSE, followed by a website I want to visit, or an action I want to take on the current site", 147)>>,
    <<L("Let's try that...", 17)>>,
    <<L("BROWSE ", 7), L("google.com", 10)>>,
    <<L("<form><input type=\"text\"></input><button type=\"submit\"></button></form>", 71)>>,
    <<L("Very cool. Now to accomplish my task.", 37)>>,
    <<L("I'll need a strategy. And as I make progress, I'll need to keep refining that strategy. I'll need to set goals, and break them into sub-goals.", 142)>>,
    <<L("In between actions, I must always take some time to think, strategize, and set new goals. I should never take two actions in a row.", 131)>>,
    <<L("OK so my task is to ", 20), TASK, L(". I haven't made any progress yet. Where should I start?", 56)>>,
    <<L("It seems like there might be an existing project here. I should probably start by running `ls` to see what's here.", 114)>>
>>

MAX_OUTPUT_LENGTH == 5000
MAX_MONOLOGUE_LENGTH == 20000

----------------------------------------------------------------------------
(* Events, actions and observations *)

\* an event dict {"action": kind, "args": {...}}; has_args is FALSE for a
\* dict built without the "args" key
Event(kind, args) == [action |-> kind, has_args |-> TRUE, args |-> args]
EventNoArgs(kind) == [action |-> kind, has_args |-> FALSE, args |-> << >>]

Arg(key, text) == <<key, text>>

Get(args, key) == args[CHOOSE i \in 1..Len(args) : args[i][1] = key][2]

NoAction == [cls |-> "None", kwargs |-> << >>]
Action(cls, kwargs) == [cls |-> cls, kwargs |-> kwargs]

ACTION_TYPES ==
    {"run", "kill", "browse", "read", "write", "recall", "think", "finish"}

ACTION_TYPE_TO_CLASS(kind) ==
    CASE kind = "run" -> "CmdRunAction"
      [] kind = "kill" -> "CmdKillAction"
      [] kind = "browse" -> "BrowseURLAction"
      [] kind = "read" -> "FileReadAction"
      [] kind = "write" -> "FileWriteAction"
      [] kind = "recall" -> "AgentRecallAction"
      [] kind = "think" -> "AgentThinkAction"
      [] kind = "finish" -> "AgentFinishAction"

Obs(cls, error, content) == [cls |-> cls, error |-> error, content |-> content]

----------------------------------------------------------------------------
(* Event log and long-term memory *)

\* serialized size of one event: the characters of its argument values
RECURSIVE ArgsLen(_)
ArgsLen(args) ==
    IF args = << >> THEN 0 ELSE TextLen(Head(args)[2]) + ArgsLen(Tail(args))

RECURSIVE get_total_length(_)
get_total_length(mono) ==
    IF mono = << >> THEN 0
    ELSE ArgsLen(Head(mono).args) + get_total_length(Tail(mono))

KeepRecent == 2

SUMMARY == Event("think", <<Arg("thought", <<L("(summary)", 9)>>)>>)

\* Monologue.condense(): the summarizer either replaces the older events by
\* a summary and keeps the most recent ones, which must make the log strictly
\* shorter, or it fails and leaves the log as it is
CondenseModes == {"shrink", "ineffective"}

condense(mono, mode) ==
    LET shrunk == <<SUMMARY>> \o SubSeq(mono, Len(mono) - KeepRecent + 1, Len(mono))
    IN  IF /\ mode = "shrink"
           /\ Len(mono) > KeepRecent
           /\ get_total_length(shrunk) < get_total_length(mono)
        THEN [mono |-> shrunk, err |-> ""]
        ELSE [mono |-> mono, err |-> "CondensationIneffective"]

\* LongTermMemory.add_event(): indexing is best effort; a failure is logged
\* and the event is left out of the index
IndexModes == {"ok", "fail"}

memory_add_event(mem, event, ix) ==
    IF ix = "ok" THEN Append(mem, event) ELSE mem

\* the outcomes of the collaborators during one step
Modes == [c : CondenseModes, ix : IndexModes]

ObservationKinds == {"output", "error"}

\* add_stats: appended = events stored in the log, checks = length checks
\* made, obs = observation events stored, index_failures = failed indexings,
\* ineffective = condense() calls that did not shorten the log,
\* last_total / last_condensed = the length found by the last check and
\* whether condense() was called on it
NoStats ==
    [appended |-> 0, checks |-> 0, obs |-> 0, index_failures |-> 0,
     ineffective |-> 0, last_total |-> 0, last_condensed |-> FALSE]

\* event['args']['output'][:MAX_OUTPUT_LENGTH] + "..."
Truncate(args) ==
    [i \in 1..Len(args) |->
        IF args[i][1] = "output" /\ TextLen(args[i][2]) > MAX_OUTPUT_LENGTH
        THEN Arg("output", Prefix(args[i][2], MAX_OUTPUT_LENGTH) \o <<L("...", 3)>>)
        ELSE args[i]]

\* what _add_event leaves once the event e is stored in the log m and has
\* gone through the index
Stored(st, e, m, mode) ==
    [st EXCEPT !.mono = m,
               !.mem = memory_add_event(st.mem, e, mode.ix),
               !.stats.appended = @ + 1,
               !.stats.obs = IF e.action \in ObservationKinds THEN @ + 1 ELSE @,
               !.stats.index_failures = IF mode.ix = "fail" THEN @ + 1 ELSE @]

\* _add_event testing the length the log had before the event was stored
_add_event_stale_length(st, event, mode) ==
    IF st.err # "" THEN st
    ELSE IF ~event.has_args THEN [st EXCEPT !.err = "KeyError"]
    ELSE LET e == [event EXCEPT !.args = Truncate(event.args)]
             m == Append(st.mono, e)
             s1 == Stored(st, e, m, mode)
             total == get_total_length(m)
             c == condense(m, mode.c)
         IN  IF get_total_length(st.mono) > MAX_MONOLOGUE_LENGTH
             THEN [s1 EXCEPT !.mono = c.mono,
                             !.err = c.err,
                             !.stats.ineffective = IF c.err # "" THEN @ + 1 ELSE @,
                             !.stats.checks = @ + 1,
                             !.stats.last_total = total,
                             !.stats.last_condensed = TRUE]
             ELSE [s1 EXCEPT !.stats.checks = @ + 1,
                             !.stats.last_total = total,
                             !.stats.last_condensed = FALSE]

\* _add_event catching the failure of condense() and going on
_add_event_swallow(st, event, mode) ==
    IF st.err # "" THEN st
    ELSE IF ~event.has_args THEN [st EXCEPT !.err = "KeyError"]
    ELSE LET e == [event EXCEPT !.args = Truncate(event.args)]
             m == Append(st.mono, e)
             s1 == Stored(st, e, m, mode)
             total == get_total_length(m)
             c == condense(m, mode.c)
         IN  IF total > MAX_MONOLOGUE_LENGTH
             THEN [s1 EXCEPT !.mono = c.mono,
                             !.stats.ineffective = IF c.err # "" THEN @ + 1 ELSE @,
                             !.stats.checks = @ + 1,
                             !.stats.last_total = total,
                             !.stats.last_condensed = TRUE]
             ELSE [s1 EXCEPT !.stats.checks = @ + 1,
                             !.stats.last_total = total,
                             !.stats.last_condensed = FALSE]

\* _add_event returning as soon as the event could not be indexed
_add_event_index_return(st, event, mode) ==
    IF st.err # "" THEN st
    ELSE IF ~event.has_args THEN [st EXCEPT !.err = "KeyError"]
    ELSE LET e == [event EXCEPT !.args = Truncate(event.args)]
             m == Append(st.mono, e)
             s1 == Stored(st, e, m, mode)
             total == get_total_length(m)
             c == condense(m, mode.c)
         IN  IF mode.ix = "fail" THEN s1
             ELSE IF total > MAX_MONOLOGUE_LENGTH
             THEN [s1 EXCEPT !.mono = c.mono,
                             !.err = c.err,
                             !.stats.ineffective = IF c.err # "" THEN @ + 1 ELSE @,
                             !.stats.checks = @ + 1,
                             !.stats.last_total = total,
                             !.stats.last_condensed = TRUE]
             ELSE [s1 EXCEPT !.stats.checks = @ + 1,
                             !.stats.last_total = total,
                             !.stats.last_condensed = FALSE]

\* LangchainsAgent._add_event on st = [mono, mem, err, stats]; a call made
\* after an exception was raised (err # "") never happens
_add_event(st, event, mode) ==
    IF st.err # "" THEN st
    ELSE IF ~event.has_args THEN [st EXCEPT !.err = "KeyError"]
    ELSE LET e == [event EXCEPT !.args = Truncate(event.args)]
             m == Append(st.mono, e)
             s1 == Stored(st, e, m, mode)
             total == get_total_length(m)
             c == condense(m, mode.c)
         IN  IF total > MAX_MONOLOGUE_LENGTH
             THEN [s1 EXCEPT !.mono = c.mono,
                             !.err = c.err,
                             !.stats.ineffective = IF c.err # "" THEN @ + 1 ELSE @,
                             !.stats.checks = @ + 1,
                             !.stats.last_total = total,
                             !.stats.last_condensed = TRUE]
             ELSE [s1 EXCEPT !.stats.checks = @ + 1,
                             !.stats.last_total = total,
                             !.stats.last_condensed = FALSE]

----------------------------------------------------------------------------
(* LangchainsAgent._initialize *)

\* the state of the loop over INITIAL_THOUGHTS after its first i rounds:
\* the events d it has built and the flag next_is_output
RECURSIVE ScriptLoop(_, _)
ScriptLoop(instr, i) ==
    IF i = 0 THEN [ds |-> << >>, next_is_output |-> FALSE]
    ELSE LET prev == ScriptLoop(instr, i - 1)
             thought == Replace(INITIAL_THOUGHTS[i], TASK, instr)
         IN  IF prev.next_is_output
             THEN [ds |-> Append(prev.ds, Event("output", <<Arg("output", thought)>>)),
                   next_is_output |-> FALSE]
             ELSE IF StartsWith(thought, RUN)
             THEN [ds |-> Append(prev.ds,
                        Event("run", <<Arg("command", SplitSecond(thought, RUN))>>)),
                   next_is_output |-> TRUE]
             ELSE IF StartsWith(thought, RECALL)
             THEN [ds |-> Append(prev.ds,
                        Event("recall", <<Arg("query", SplitSecond(thought, RECALL))>>)),
                   next_is_output |-> TRUE]
             ELSE IF StartsWith(thought, BROWSE)
             THEN [ds |-> Append(prev.ds,
                        Event("browse", <<Arg("url", SplitSecond(thought, BROWSE))>>)),
                   next_is_output |-> TRUE]
             ELSE [ds |-> Append(prev.ds, Event("think", <<Arg("thought", thought)>>)),
                   next_is_output |-> FALSE]

\* every event d the loop builds, in script order
ScriptEvents(instr) == ScriptLoop(instr, Len(INITIAL_THOUGHTS)).ds

\* the events _initialize hands to _add_event: the call stands after the
\* loop, so it receives the value d holds when the loop has ended
InitializeEvents(instr) ==
    LET ds == ScriptEvents(instr) IN <<ds[Len(ds)]>>

RECURSIVE AddAll(_, _, _)
AddAll(st, events, mode) ==
    IF events = << >> THEN st
    ELSE AddAll(_add_event(st, Head(events), mode), Tail(events), mode)

_initialize(st, isInit, instr, mode) ==
    IF isInit THEN [st |-> st, init |-> TRUE]
    ELSE IF instr = EmptyText
    THEN [st |-> [st EXCEPT !.err = "ValueError"], init |-> FALSE]
    ELSE LET after == AddAll(st, InitializeEvents(instr), mode)
         IN  [st |-> after, init |-> after.err = ""]

----------------------------------------------------------------------------
(* LangchainsAgent.step *)

\* the observation half of a pair as an event dict; "" where step raises
ObservationEvent(obs) ==
    IF obs.cls = "CmdOutputObservation"
    THEN (IF obs.error THEN Event("error", <<Arg("output", obs.content)>>)
                       ELSE Event("output", <<Arg("output", obs.content)>>))
    ELSE IF obs.cls \in {"BrowserOutputObservation", "Observation"}
    THEN Event("output", <<Arg("output", obs.content)>>)
    ELSE EventNoArgs("")

\* the action half of a pair as an event dict; "" where step raises
ActionEvent(a) ==
    CASE a.cls = "CmdRunAction" ->
            Event("run", <<Arg("command", Get(a.kwargs, "command"))>>)
      [] a.cls = "CmdKillAction" ->
            Event("kill", <<Arg("id", Get(a.kwargs, "id"))>>)
      [] a.cls = "BrowseURLAction" ->
            Event("browse", <<Arg("url", Get(a.kwargs, "url"))>>)
      [] a.cls = "FileReadAction" ->
            Event("read", <<Arg("file", Get(a.kwargs, "path"))>>)
      [] a.cls = "FileWriteAction" ->
            Event("write", <<Arg("file", Get(a.kwargs, "path")),
                             Arg("content", Get(a.kwargs, "contents"))>>)
      [] a.cls = "AgentRecallAction" ->
            Event("recall", <<Arg("query", Get(a.kwargs, "query"))>>)
      [] a.cls = "AgentThinkAction" ->
            Event("think", <<Arg("thought", Get(a.kwargs, "thought"))>>)
      [] a.cls = "AgentFinishAction" -> EventNoArgs("finish")
      [] OTHER -> EventNoArgs("")

\* one round of the loop over state.updated_info
FoldPair(st, pair, mode) ==
    LET oe == ObservationEvent(pair[2])
        ae == ActionEvent(pair[1])
        s1 == IF st.err # "" THEN st
              ELSE IF oe.action = "" THEN [st EXCEPT !.err = "NotImplementedError"]
              ELSE _add_event(st, oe, mode)
    IN  IF s1.err # "" THEN s1
        ELSE IF ae.action = "" THEN [s1 EXCEPT !.err = "NotImplementedError"]
        ELSE _add_event(s1, ae, mode)

RECURSIVE FoldBatch(_, _, _)
FoldBatch(st, batch, mode) ==
    IF batch = << >> \/ st.err # "" THEN st
    ELSE FoldBatch(FoldPair(st, Head(batch), mode), Tail(batch), mode)

\* the attributes each Action class is constructed with
ClassFields(cls) ==
    CASE cls = "CmdRunAction" -> {"command"}
      [] cls = "CmdKillAction" -> {"id"}
      [] cls = "BrowseURLAction" -> {"url"}
      [] cls = "FileReadAction" -> {"path"}
      [] cls = "FileWriteAction" -> {"path", "contents"}
      [] cls = "AgentRecallAction" -> {"query"}
      [] cls = "AgentThinkAction" -> {"thought"}
      [] cls = "AgentFinishAction" -> {}

Keys(args) == {args[i][1] : i \in 1..Len(args)}

\* a decoding that falls back to a thought for a kind it does not know
Decode_default(action_dict) ==
    IF action_dict.action \notin ACTION_TYPES \/ ~action_dict.has_args
    THEN [err |-> "",
          action |-> Action("AgentThinkAction", <<Arg("thought", <<L("...", 3)>>)>>)]
    ELSE LET cls == ACTION_TYPE_TO_CLASS(action_dict.action)
         IN  IF Keys(action_dict.args) # ClassFields(cls)
             THEN [err |-> "TypeError", action |-> NoAction]
             ELSE [err |-> "", action |-> Action(cls, action_dict.args)]

\* ACTION_TYPE_TO_CLASS[action_dict["action"]](**action_dict["args"])
Decode(action_dict) ==
    IF action_dict.action \notin ACTION_TYPES \/ ~action_dict.has_args
    THEN [err |-> "KeyError", action |-> NoAction]
    ELSE LET cls == ACTION_TYPE_TO_CLASS(action_dict.action)
         IN  IF Keys(action_dict.args) # ClassFields(cls)
             THEN [err |-> "TypeError", action |-> NoAction]
             ELSE [err |-> "", action |-> Action(cls, action_dict.args)]

\* what llm.request_action gives back: None, an action dict, or an exception
None == EventNoArgs("None")
BackendRaises == EventNoArgs("raise")

BackendResponses ==
    { None, BackendRaises,
      Event("think", <<Arg("thought", <<L("hm", 2)>>)>>),
      Event("finish", << >>),
      Event("bogus", << >>) }

\* a default that decides to finish when the backend is silent
DefaultFinish == Event("finish", << >>)

DefaultThink == Event("think", <<Arg("thought", <<L("...", 3)>>)>>)

Instructions == { <<L("list files", 10)>>, <<L("fix bug", 7)>> }

\* the (action, observation) pairs the controller may put in the batch
Pairs ==
    { <<Action("CmdRunAction", <<Arg("command", <<L("echo ", 5), L("x*", 16000)>>)>>),
        Obs("CmdOutputObservation", TRUE, <<L("x*", 12000)>>)>>,
      <<Action("AgentRecallAction", <<Arg("query", <<L("ls", 2)>>)>>),
        Obs("Observation", FALSE, <<L("found", 5)>>)>>,
      <<Action("AgentFinishAction", << >>),
        Obs("Observation", FALSE, EmptyText)>> }

AgentInit ==
    /\ instruction = EmptyText
    /\ complete = FALSE
    /\ initialized = FALSE
    /\ monologue = << >>
    /\ memory = << >>
    /\ latest_action = NoAction
    /\ updated_info = << >>
    /\ backend_calls = 0
    /\ raised = ""
    /\ returned = NoAction
    /\ finish_produced = FALSE
    /\ reset_pending = FALSE
    /\ steps = 0
    /\ pairs_added = 0
    /\ add_stats = NoStats

\* the controller sets agent.instruction to the task it is started with
SetInstruction(instr) ==
    /\ steps < MaxSteps
    /\ instruction' = instr
    /\ raised' = ""
    /\ UNCHANGED <<complete, initialized, monologue, memory, latest_action,
                   updated_info, backend_calls, returned, finish_produced,
                   reset_pending, steps, pairs_added, add_stats>>
    /\ UNCHANGED <<sessionVars, registryVars, roundTripVars>>

\* the controller records the pair it has just executed in state.updated_info
AddPair(pair) ==
    /\ steps < MaxSteps
    /\ Len(updated_info) < MaxBatch
    /\ updated_info' = Append(updated_info, pair)
    /\ pairs_added' = pairs_added + 1
    /\ raised' = ""
    /\ UNCHANGED <<instruction, complete, initialized, monologue, memory,
                   latest_action, backend_calls, returned, finish_produced,
                   reset_pending, steps, add_stats>>
    /\ UNCHANGED <<sessionVars, registryVars, roundTripVars>>

\* Agent.reset(); LangchainsAgent does not override it
Reset ==
    /\ steps < MaxSteps
    /\ instruction' = EmptyText
    /\ complete' = FALSE
    /\ raised' = ""
    /\ returned' = NoAction
    /\ finish_produced' = FALSE
    /\ reset_pending' = TRUE
    /\ UNCHANGED <<initialized, monologue, memory, latest_action, updated_info,
                   backend_calls, steps, pairs_added, add_stats>>
    /\ UNCHANGED <<sessionVars, registryVars, roundTripVars>>

\* LangchainsAgent.step(state) with the backend answering resp
Step(resp, mode) ==
    /\ steps < MaxSteps
    /\ steps' = steps + 1
    /\ reset_pending' = FALSE
    /\ UNCHANGED <<instruction, complete, pairs_added>>
    /\ LET st0 == [mono |-> monologue, mem |-> memory, err |-> "",
                   stats |-> add_stats]
           ini == _initialize(st0, initialized, instruction, mode)
           st1 == FoldBatch(ini.st, updated_info, mode)
           dec == Decode(IF resp = None THEN DefaultThink ELSE resp)
       IN  /\ initialized' = ini.init
           /\ monologue' = st1.mono
           /\ memory' = st1.mem
           /\ add_stats' = st1.stats
           /\ IF st1.err # ""
              THEN /\ raised' = st1.err
                   /\ returned' = NoAction
                   /\ UNCHANGED <<updated_info, backend_calls, latest_action,
                                  finish_produced>>
              ELSE /\ updated_info' = << >>
                   /\ backend_calls' = backend_calls + 1
                   /\ IF resp = BackendRaises
                      THEN /\ raised' = "BackendError"
                           /\ returned' = NoAction
                           /\ UNCHANGED <<latest_action, finish_produced>>
                      ELSE IF dec.err # ""
                      THEN /\ raised' = dec.err
                           /\ returned' = NoAction
                           /\ UNCHANGED <<latest_action, finish_produced>>
                      ELSE /\ raised' = ""
                           /\ returned' = dec.action
                           /\ latest_action' = dec.action
                           /\ finish_produced' =
                                (finish_produced \/ dec.action.cls = "AgentFinishAction")
    /\ UNCHANGED <<sessionVars, registryVars, roundTripVars>>

Next ==
    \/ \E instr \in Instructions : SetInstruction(instr)
    \/ \E pair \in Pairs : AddPair(pair)
    \/ Reset
    \/ \E resp \in BackendResponses, mode \in Modes : Step(resp, mode)

----------------------------------------------------------------------------
(* Session *)

\* what the Session hands to websocket.send_json
ErrorData(text) == [kind |-> "error", text |-> text, ev |-> 0]
MessageData(text) == [kind |-> "message", text |-> text, ev |-> 0]
InitializeData == [kind |-> "initialize", text |-> "Control loop started.", ev |-> 0]
EventData(n) == [kind |-> "event", text |-> "", ev |-> n]

\* outcomes of websocket.receive_json(): a ValueError, a WebSocketDisconnect,
\* or a JSON object with or without "action"; args is the set of keys of
\* its "args" object
Msg(kind, action, args) == [kind |-> kind, action |-> action, args |-> args]
NoMsg == Msg("none", "", {})
InvalidJson == Msg("invalid_json", "", {})
DisconnectMsg == Msg("disconnect", "", {})

ClientMessages ==
    { InvalidJson,
      Msg("no_action", "", {}),
      Msg("event", "initialize", {}),
      Msg("event", "initialize", {"directory", "model"}),
      Msg("event", "start", {}),
      Msg("event", "start", {"task"}),
      Msg("event", "chat", {}),
      Msg("event", "edit", {}) }

NoneEvent == [is_none |-> TRUE, action |-> "", args |-> {}]

parse_event(data) ==
    IF data.kind = "no_action" THEN NoneEvent
    ELSE [is_none |-> FALSE, action |-> data.action, args |-> data.args]

\* send without the test for a cleared websocket
send_unguarded(ws, st, data) ==
    [st EXCEPT !.wire = Append(@, data), !.reply = Append(@, data)]

\* Session.send: st = [wire, skipped, reply] with reply the data the current
\* handler has sent.  An exception of send_json is caught and printed, so a
\* failing transport changes nothing here: wire lists the calls made.
send(ws, st, data) ==
    IF ws = "None" THEN [st EXCEPT !.skipped = @ + 1]
    ELSE [st EXCEPT !.wire = Append(@, data), !.reply = Append(@, data)]

send_error(ws, st, text) == send(ws, st, ErrorData(text))
send_message(ws, st, text) == send(ws, st, MessageData(text))

REGISTRY == {"LangchainsAgent"}

\* Session.create_controller(start_event); start_event is NoneEvent or the
\* dict parse_event returned.  A dict is truthy (it always holds three keys) and
\* has no attribute args, so the first test on it raises AttributeError.
create_controller(ws, st, ctl, ag, start_event) ==
    IF ~start_event.is_none
    THEN [err |-> "AttributeError", st |-> st, controller |-> ctl, agent |-> ag]
    ELSE IF "LangchainsAgent" \notin REGISTRY
    THEN [err |-> "ValueError", st |-> st, controller |-> ctl, agent |-> ag]
    ELSE [err |-> "",
          st |-> send(ws, st, InitializeData),
          controller |-> "AgentController",
          agent |-> "LangchainsAgent"]

\* start_task without the test for a missing task
start_task_unchecked(ws, st, ctl, task, lps, start_event) ==
    LET s1 == send_message(ws, st, "Starting new task...")
    IN  IF ctl = "None"
        THEN [st |-> send_error(ws, s1, "No agent started. Please wait a second..."),
              agent_task |-> task, loops |-> lps]
        ELSE [st |-> s1,
              agent_task |-> Len(lps) + 1,
              loops |-> Append(lps, "running")]

\* start_task without the test for a missing controller
start_task_no_controller(ws, st, ctl, task, lps, start_event) ==
    IF "task" \notin start_event.args
    THEN [st |-> send_error(ws, st, "No task specified"),
          agent_task |-> task, loops |-> lps]
    ELSE [st |-> send_message(ws, st, "Starting new task..."),
          agent_task |-> Len(lps) + 1,
          loops |-> Append(lps, "running")]

\* Session.start_task(start_event)
start_task(ws, st, ctl, task, lps, start_event) ==
    IF "task" \notin start_event.args
    THEN [st |-> send_error(ws, st, "No task specified"),
          agent_task |-> task, loops |-> lps]
    ELSE LET s1 == send_message(ws, st, "Starting new task...")
         IN  IF ctl = "None"
             THEN [st |-> send_error(ws, s1, "No agent started. Please wait a second..."),
                   agent_task |-> task, loops |-> lps]
             ELSE [st |-> s1,
                   agent_task |-> Len(lps) + 1,
                   loops |-> Append(lps, "running")]

\* on_agent_event running the new send task ahead of the queued ones
on_agent_event_front(queue, data) == <<data>> \o queue

\* Session.on_agent_event: asyncio.create_task puts the new send task at the
\* back of the event loop's queue
on_agent_event(queue, data) == Append(queue, data)

SessionInit ==
    /\ websocket = "ws"
    /\ controller = "None"
    /\ agent = "None"
    /\ agent_task = 0
    /\ loops = << >>
    /\ create_pc = "pending"
    /\ listen_pc = "listening"
    /\ ready = << >>
    /\ wire = << >>
    /\ emitted = 0
    /\ skipped = 0
    /\ nrecv = 0
    /\ last_msg = NoMsg
    /\ last_reply = << >>

\* the "create controller" task started by Session.__init__ runs
Materialize ==
    /\ create_pc = "pending"
    /\ LET r == create_controller(websocket,
                    [wire |-> wire, skipped |-> skipped, reply |-> << >>],
                    controller, agent, NoneEvent)
       IN  /\ create_pc' = IF r.err = "" THEN "done" ELSE r.err
           /\ controller' = r.controller
           /\ agent' = r.agent
           /\ wire' = r.st.wire
           /\ skipped' = r.st.skipped
    /\ UNCHANGED <<websocket, agent_task, loops, listen_pc, ready, emitted,
                   nrecv, last_msg, last_reply>>
    /\ UNCHANGED <<agentVars, registryVars, roundTripVars>>

\* one round of the loop of start_listening on the message data
Receive(data) ==
    /\ listen_pc = "listening"
    /\ nrecv < MaxMsgs
    /\ (data.action = "start" /\ "task" \in data.args) => Len(loops) < MaxLoops
    /\ nrecv' = nrecv + 1
    /\ last_msg' = data
    /\ LET st0 == [wire |-> wire, skipped |-> skipped, reply |-> << >>]
           event == parse_event(data)
           cc == create_controller(websocket, st0, controller, agent, event)
           stt == start_task(websocket, st0, controller, agent_task, loops, event)
           r == IF data = InvalidJson
                THEN [pc |-> "listening", st |-> send_error(websocket, st0, "Invalid JSON"),
                      controller |-> controller, agent |-> agent,
                      agent_task |-> agent_task, loops |-> loops]
                ELSE IF event.is_none
                THEN [pc |-> "listening", st |-> send_error(websocket, st0, "Invalid event"),
                      controller |-> controller, agent |-> agent,
                      agent_task |-> agent_task, loops |-> loops]
                ELSE IF event.action = "initialize"
                THEN [pc |-> IF cc.err = "" THEN "listening" ELSE cc.err, st |-> cc.st,
                      controller |-> cc.controller, agent |-> cc.agent,
                      agent_task |-> agent_task, loops |-> loops]
                ELSE IF event.action = "start"
                THEN [pc |-> "listening", st |-> stt.st,
                      controller |-> controller, agent |-> agent,
                      agent_task |-> stt.agent_task, loops |-> stt.loops]
                ELSE IF controller = "None"
                THEN [pc |-> "listening",
                      st |-> send_error(websocket, st0,
                                        "No agent started. Please wait a second..."),
                      controller |-> controller, agent |-> agent,
                      agent_task |-> agent_task, loops |-> loops]
                ELSE IF event.action = "chat"
                THEN [pc |-> "listening", st |-> st0,
                      controller |-> controller, agent |-> agent,
                      agent_task |-> agent_task, loops |-> loops]
                ELSE [pc |-> "NotImplementedError", st |-> st0,
                      controller |-> controller, agent |-> agent,
                      agent_task |-> agent_task, loops |-> loops]
       IN  /\ listen_pc' = r.pc
           /\ wire' = r.st.wire
           /\ skipped' = r.st.skipped
           /\ last_reply' = r.st.reply
           /\ controller' = r.controller
           /\ agent' = r.agent
           /\ agent_task' = r.agent_task
           /\ loops' = r.loops
    /\ UNCHANGED <<websocket, create_pc, ready, emitted>>
    /\ UNCHANGED <<agentVars, registryVars, roundTripVars>>

\* receive_json raises WebSocketDisconnect: the except clause of start_listening
Disconnect ==
    /\ listen_pc = "listening"
    /\ listen_pc' = "closed"
    /\ websocket' = "None"
    /\ loops' = IF agent_task # 0 /\ loops[agent_task] = "running"
                THEN [loops EXCEPT ![agent_task] = "cancelled"]
                ELSE loops
    /\ last_msg' = DisconnectMsg
    /\ last_reply' = << >>
    /\ UNCHANGED <<controller, agent, agent_task, create_pc, ready, wire,
                   emitted, skipped, nrecv>>
    /\ UNCHANGED <<agentVars, registryVars, roundTripVars>>

\* a running loop of the controller emits an event through its callback
LoopEmit(t) ==
    /\ loops[t] = "running"
    /\ emitted < MaxEvents
    /\ emitted' = emitted + 1
    /\ ready' = on_agent_event(ready, EventData(emitted + 1))
    /\ UNCHANGED <<websocket, controller, agent, agent_task, loops, create_pc,
                   listen_pc, wire, skipped, nrecv, last_msg, last_reply>>
    /\ UNCHANGED <<agentVars, registryVars, roundTripVars>>

\* a running loop of the controller comes to its end
LoopEnd(t) ==
    /\ loops[t] = "running"
    /\ loops' = [loops EXCEPT ![t] = "done"]
    /\ UNCHANGED <<websocket, controller, agent, agent_task, create_pc,
                   listen_pc, ready, wire, emitted, skipped, nrecv, last_msg,
                   last_reply>>
    /\ UNCHANGED <<agentVars, registryVars, roundTripVars>>

\* the event loop runs the send task at the front of its queue
RunSend ==
    /\ ready # << >>
    /\ LET r == send(websocket, [wire |-> wire, skipped |-> skipped, reply |-> << >>],
                     Head(ready))
       IN  /\ wire' = r.wire
           /\ skipped' = r.skipped
    /\ ready' = Tail(ready)
    /\ UNCHANGED <<websocket, controller, agent, agent_task, loops, create_pc,
                   listen_pc, emitted, nrecv, last_msg, last_reply>>
    /\ UNCHANGED <<agentVars, registryVars, roundTripVars>>

SessionNext ==
    \/ Materialize
    \/ \E data \in ClientMessages : Receive(data)
    \/ Disconnect
    \/ \E t \in 1..Len(loops) : LoopEmit(t)
    \/ \E t \in 1..Len(loops) : LoopEnd(t)
    \/ RunSend

----------------------------------------------------------------------------
(* The agent registry: Agent.register, Agent.get_cls *)

AgentNames == {"LangchainsAgent", "CodeActAgent", "PlannerAgent"}
AgentClasses == {"LangchainsAgent", "CodeActAgent", "PlannerAgent"}

\* _registry = {}
EmptyRegistry == [n \in {} |-> ""]

\* the registry once agenthub.langchains_agent has been imported
ImportedRegistry == [n \in REGISTRY |-> n]

Bind(reg, name, agent_cls) ==
    [n \in DOMAIN reg \cup {name} |-> IF n = name THEN agent_cls ELSE reg[n]]

\* a register that rebinds a name already taken
register_overwrite(reg, name, agent_cls) ==
    [reg |-> Bind(reg, name, agent_cls), err |-> ""]

\* Agent.register(name, agent_cls)
register(reg, name, agent_cls) ==
    IF name \in DOMAIN reg
    THEN [reg |-> reg, err |-> "ValueError"]
    ELSE [reg |-> Bind(reg, name, agent_cls), err |-> ""]

\* Agent.get_cls(name)
get_cls(reg, name) ==
    IF name \notin DOMAIN reg
    THEN [cls |-> "None", err |-> "ValueError"]
    ELSE [cls |-> reg[name], err |-> ""]

NoCall == [op |-> "", name |-> "", cls |-> "", err |-> "", result |-> "None"]

RegistryIdle ==
    /\ registry = ImportedRegistry
    /\ first_bound = ImportedRegistry
    /\ reg_last = NoCall

RegistryInit ==
    /\ registry = EmptyRegistry
    /\ first_bound = EmptyRegistry
    /\ reg_last = NoCall

Register(name, agent_cls) ==
    LET r == register(registry, name, agent_cls)
    IN  /\ registry' = r.reg
        /\ first_bound' = IF r.err = "" /\ name \notin DOMAIN first_bound
                           THEN Bind(first_bound, name, agent_cls)
                           ELSE first_bound
        /\ reg_last' = [op |-> "register", name |-> name, cls |-> agent_cls,
                         err |-> r.err, result |-> "None"]
        /\ UNCHANGED <<agentVars, sessionVars, roundTripVars>>

GetCls(name) ==
    LET r == get_cls(registry, name)
    IN  /\ reg_last' = [op |-> "get_cls", name |-> name, cls |-> "",
                         err |-> r.err, result |-> r.cls]
        /\ UNCHANGED <<registry, first_bound>>
        /\ UNCHANGED <<agentVars, sessionVars, roundTripVars>>

RegistryNext ==
    \/ \E name \in AgentNames, agent_cls \in AgentClasses : Register(name, agent_cls)
    \/ \E name \in AgentNames : GetCls(name)
    \/ Reset

----------------------------------------------------------------------------
(* Encoding an action as the fold of step does, decoding it as step does *)

MaxText == 4

Texts == {<<L("t", n)>> : n \in 1..MaxText}

OneField(cls, key) == {Action(cls, <<Arg(key, t)>>) : t \in Texts}

Actions ==
    OneField("CmdRunAction", "command") \cup OneField("CmdKillAction", "id")
        \cup OneField("BrowseURLAction", "url")
        \cup OneField("FileReadAction", "path")
        \cup {Action("FileWriteAction", <<Arg("path", p), Arg("contents", c)>>) :
                 p \in Texts, c \in Texts}
        \cup OneField("AgentRecallAction", "query")
        \cup OneField("AgentThinkAction", "thought")
        \cup {Action("AgentFinishAction", << >>)}

NoResult == [err |-> "", action |-> NoAction]

RoundTripIdle ==
    /\ rt_action = NoAction
    /\ rt_event = EventNoArgs("")
    /\ rt_result = NoResult
    /\ rt_pc = "off"

RoundTripInit ==
    /\ rt_action \in Actions
    /\ rt_event = EventNoArgs("")
    /\ rt_result = NoResult
    /\ rt_pc = "start"

Encode ==
    /\ rt_pc = "start"
    /\ rt_event' = ActionEvent(rt_action)
    /\ rt_pc' = "encoded"
    /\ UNCHANGED <<rt_action, rt_result>>
    /\ UNCHANGED <<agentVars, sessionVars, registryVars>>

DecodeStep ==
    /\ rt_pc = "encoded"
    /\ rt_result' = Decode(rt_event)
    /\ rt_pc' = "decoded"
    /\ UNCHANGED <<rt_action, rt_event>>
    /\ UNCHANGED <<agentVars, sessionVars, registryVars>>

RoundTripNext == Encode \/ DecodeStep

----------------------------------------------------------------------------
(* Specifications *)

Init == AgentInit /\ SessionInit /\ RegistryIdle /\ RoundTripIdle

RegistrySpecInit == AgentInit /\ SessionInit /\ RegistryInit /\ RoundTripIdle

RoundTripSpecInit == AgentInit /\ SessionInit /\ RegistryIdle /\ RoundTripInit

Spec == Init /\ [][Next]_vars

SessionSpec == Init /\ [][SessionNext]_vars

RegistrySpec == RegistrySpecInit /\ [][RegistryNext]_vars

RoundTripSpec == RoundTripSpecInit /\ [][RoundTripNext]_vars

----------------------------------------------------------------------------
(* Claims about the agent control step *)

\* a transition that is one invocation of step
StepTaken == steps' = steps + 1

\* C1: after the first step of a fresh agent with a non-empty instruction
\* the event log begins with the whole canned script, one event per scripted
\* entry, in script order, with the instruction substituted for $TASK.
C1_BootstrapScript ==
    [][(StepTaken /\ steps = 0 /\ instruction # EmptyText) =>
         /\ Len(monologue') >= Len(INITIAL_THOUGHTS)
         /\ SubSeq(monologue', 1, Len(INITIAL_THOUGHTS)) = ScriptEvents(instruction)]_vars

\* C2: once a step has produced a Finish action the complete flag is true
\* and, until reset() is called, no step calls the backend or appends to the
\* event log.
C2_FinishIsTerminal ==
    [][finish_produced =>
         /\ complete
         /\ finish_produced' =>
               (backend_calls' = backend_calls /\ monologue' = monologue)]_vars

\* C3: reset() leaves the instruction empty and complete false, and the next
\* step taken with a new non-empty instruction injects the bootstrap events
\* for that instruction before anything else is appended.
C3_ResetPristine ==
    [][/\ (reset_pending' /\ ~reset_pending) => (instruction' = EmptyText /\ ~complete')
       /\ (reset_pending /\ StepTaken /\ instruction # EmptyText) =>
             /\ Len(memory') > Len(memory)
             /\ memory'[Len(memory) + 1] = InitializeEvents(instruction)[1]]_vars

\* C4: a step invoked while the instruction is empty fails with the missing
\* instruction error (ValueError), appends nothing to the event log or the
\* long-term memory, leaves the pending batch in place and does not call the
\* backend.
C4_MissingInstruction ==
    [][(StepTaken /\ instruction = EmptyText) =>
         /\ raised' = "ValueError"
         /\ monologue' = monologue
         /\ memory' = memory
         /\ updated_info' = updated_info
         /\ backend_calls' = backend_calls]_vars

----------------------------------------------------------------------------
(* Claims about the Session *)

\* a transition that is one round of the receive loop
Received == nrecv' = nrecv + 1

HasError(reply) == \E i \in 1..Len(reply) : reply[i].kind = "error"

\* C5: an "initialize" message re-materializes the Agent and the controller
\* and the receive loop goes on listening.
C5_InitializeKeepsOpen ==
    [][(Received /\ last_msg'.action = "initialize") =>
         /\ listen_pc' = "listening"
         /\ controller' # "None"
         /\ agent' # "None"]_vars

Rejected(m) ==
    \/ m.kind \in {"invalid_json", "no_action"}
    \/ m.kind = "event" /\ m.action \notin {"initialize", "start", "chat"}

\* C6: a malformed message, a message without action, or one naming an
\* action other than initialize/start/chat gets an error reply, the receive
\* loop keeps running and the Agent, controller and run-loop handle are
\* unchanged, with or without an Agent.
C6_BadMessageRejected ==
    [][(Received /\ Rejected(last_msg')) =>
         /\ listen_pc' = "listening"
         /\ HasError(last_reply')
         /\ websocket' = websocket
         /\ agent' = agent
         /\ controller' = controller
         /\ agent_task' = agent_task
         /\ loops' = loops]_vars

\* C7: a "start" message without a task gets the error reply and changes
\* nothing: no run loop is created and the run-loop handle, the Agent and
\* the controller are as before.
C7_StartWithoutTask ==
    [][(Received /\ last_msg'.action = "start" /\ "task" \notin last_msg'.args) =>
         /\ last_reply' = <<ErrorData("No task specified")>>
         /\ listen_pc' = "listening"
         /\ loops' = loops
         /\ agent_task' = agent_task
         /\ agent' = agent
         /\ controller' = controller]_vars

C7_Witness ==
    /\ last_msg = Msg("event", "start", {})
    /\ controller # "None"
    /\ last_reply = <<ErrorData("No task specified")>>
    /\ listen_pc = "listening"

\* C8: while no controller exists, a chat message, a start message or any
\* other action but initialize gets an error reply, raises nothing and
\* creates no run loop; the receive loop keeps running.
C8_NoAgentYet ==
    [][(Received /\ controller = "None" /\ last_msg'.kind = "event"
          /\ last_msg'.action # "initialize") =>
         /\ HasError(last_reply')
         /\ listen_pc' = "listening"
         /\ loops' = loops
         /\ agent_task' = agent_task]_vars

C8_Witness ==
    /\ controller = "None"
    /\ nrecv >= 2
    /\ last_msg = Msg("event", "start", {"task"})
    /\ HasError(last_reply)
    /\ loops = << >>
    /\ listen_pc = "listening"

\* C9: the events of the run loops reach websocket.send_json in the order
\* in which they were emitted.
C9_EmissionOrder ==
    \A i, j \in 1..Len(wire) :
        (i < j /\ wire[i].kind = "event" /\ wire[j].kind = "event") =>
            wire[i].ev < wire[j].ev

\* three events were in the queue together and all were sent
C9_Witness ==
    /\ Len(ready) = 0
    /\ emitted = MaxEvents
    /\ Cardinality({i \in 1..Len(wire) : wire[i].kind = "event"}) = MaxEvents
    /\ \E i \in 1..Len(wire) - 2 :
          wire[i].kind = "event" /\ wire[i + 1].kind = "event"
              /\ wire[i + 2].kind = "event"

\* C10: after the disconnect the transport reference is cleared, the run
\* loop the handle names is cancelled and nothing more is handed to the
\* transport, whenever the send task was created.
C10_NoSendAfterClose ==
    /\ [](listen_pc = "closed" =>
            /\ websocket = "None"
            /\ agent_task # 0 => loops[agent_task] # "running")
    /\ [][websocket = "None" => wire' = wire]_vars

C10_Witness ==
    /\ listen_pc = "closed"
    /\ agent_task # 0
    /\ loops[agent_task] = "cancelled"
    /\ skipped > 0
    /\ ready = << >>


----------------------------------------------------------------------------
(* Further claims about the agent control step *)

NonThinkAction(e) ==
    e.action \in {"run", "kill", "browse", "read", "write", "recall", "finish"}

\* C11: in the event log every non-think action event has a think event
\* before it with no other non-think action event in between.
C11_ThinkBetweenActions ==
    \A j \in 1..Len(monologue) :
        NonThinkAction(monologue[j]) =>
            \E k \in 1..(j - 1) :
                /\ monologue[k].action = "think"
                /\ \A m \in (k + 1)..(j - 1) : ~NonThinkAction(monologue[m])

\* C17: no two run loops of the Session run at the same time and none is
\* left running once the Session is closed.
C17_OneRunLoop ==
    /\ Cardinality({t \in 1..Len(loops) : loops[t] = "running"}) <= 1
    /\ listen_pc = "closed" => \A t \in 1..Len(loops) : loops[t] # "running"


ThinkDots == Action("AgentThinkAction", <<Arg("thought", <<L("...", 3)>>)>>)

\* the step has got as far as the backend call
BackendCalled == backend_calls' = backend_calls + 1

\* C12: when the backend returns None the step returns the one action
\* Think("..."), records it as the latest action and raises nothing.
C12_NullGivesThink ==
    [][(BackendCalled /\ \E mode \in Modes : Step(None, mode)) =>
         /\ raised' = ""
         /\ returned' = ThinkDots
         /\ latest_action' = ThinkDots]_vars

C12_Witness ==
    /\ returned = ThinkDots
    /\ latest_action = ThinkDots
    /\ raised = ""
    /\ backend_calls = 2

\* C13: when the backend names a kind that is not in the table the step
\* fails with the unknown-kind error (KeyError), returns no action and leaves
\* the latest action as it was.
C13_UnknownKindFails ==
    [][(BackendCalled /\ \E mode \in Modes : Step(Event("bogus", << >>), mode)) =>
         /\ raised' = "KeyError"
         /\ returned' = NoAction
         /\ latest_action' = latest_action]_vars

C13_Witness ==
    /\ raised = "KeyError"
    /\ returned = NoAction
    /\ latest_action # NoAction
    /\ backend_calls = 2

\* C16: the observation of each pair put in the batch is stored in the log
\* at most once, and exactly once when the batch has been consumed.
C16_FoldedOnce ==
    /\ add_stats.obs <= pairs_added
    /\ updated_info = << >> => add_stats.obs = pairs_added

\* C18: every append is followed by the length check, condense() is called
\* exactly when the check finds the log above the ceiling, and so the log is
\* never above the ceiling unless condense() has been called on it.
C18_CondenseWhenOver ==
    /\ add_stats.checks = add_stats.appended
    /\ add_stats.last_condensed <=> add_stats.last_total > MAX_MONOLOGUE_LENGTH
    /\ get_total_length(monologue) > MAX_MONOLOGUE_LENGTH => add_stats.last_condensed

C18_Witness ==
    /\ add_stats.last_condensed
    /\ raised = ""
    /\ backend_calls >= 1
    /\ monologue[1] = SUMMARY

\* C19: a step in which condense() does not shorten the log fails with
\* CondensationIneffective at that append: nothing more is appended and the
\* backend is not called.
C19_IneffectiveIsFatal ==
    [][(StepTaken /\ add_stats'.ineffective > add_stats.ineffective) =>
         /\ raised' = "CondensationIneffective"
         /\ returned' = NoAction
         /\ backend_calls' = backend_calls
         /\ add_stats'.ineffective = add_stats.ineffective + 1
         /\ add_stats'.last_condensed
         /\ get_total_length(monologue') = add_stats'.last_total]_vars

C19_Witness ==
    /\ raised = "CondensationIneffective"
    /\ add_stats.ineffective = 1
    /\ updated_info # << >>

\* C20: a step in which an event could not be indexed still stores every
\* event in the log, makes the length check for every append, and goes on
\* to fold the whole batch and to call the backend.
C20_IndexFailureIgnored ==
    [][(StepTaken /\ add_stats'.index_failures > add_stats.index_failures) =>
         /\ add_stats'.checks - add_stats.checks
               = add_stats'.appended - add_stats.appended
         /\ Len(monologue') >= 1
         /\ add_stats'.appended - add_stats.appended
               = (Len(memory') - Len(memory))
                   + (add_stats'.index_failures - add_stats.index_failures)
         /\ raised' \notin {"CondensationIneffective", "KeyError", "NotImplementedError"} =>
               /\ updated_info' = << >>
               /\ BackendCalled
               /\ add_stats'.obs - add_stats.obs = Len(updated_info)]_vars

C20_Witness ==
    /\ add_stats.index_failures > 0
    /\ Len(memory) < add_stats.appended
    /\ raised = ""
    /\ backend_calls >= 1
    /\ add_stats.obs >= 1


----------------------------------------------------------------------------
(* Claims about the registry and about encoding *)

\* C14: every name stays bound to the class of its first successful
\* register: a register on a bound name fails and changes nothing, get_cls
\* returns that class, and nothing (reset included) removes a binding.
C14_WriteOnce ==
    /\ registry = first_bound
    /\ reg_last.op = "register" /\ reg_last.err = "ValueError" =>
          reg_last.name \in DOMAIN registry
    /\ reg_last.op = "register" /\ reg_last.err = "" =>
          registry[reg_last.name] = reg_last.cls
    /\ reg_last.op = "get_cls" /\ reg_last.err = "" =>
          reg_last.result = first_bound[reg_last.name]

C14_Witness ==
    /\ reg_last.op = "register"
    /\ reg_last.err = "ValueError"
    /\ registry[reg_last.name] # reg_last.cls
    /\ reset_pending
    /\ DOMAIN registry = AgentNames

\* C15: an action encoded as the fold of step encodes it and decoded as
\* step decodes the backend's answer comes back as an equal action.
C15_RoundTrip ==
    rt_pc = "decoded" =>
        /\ rt_result.err = ""
        /\ rt_result.action = rt_action

====
